---------------------------- MODULE Spec2Model ----------------------------
(***************************************************************************)
(* LeekDuck events scraper (src/scraper.py): class LeekDuckScraper.        *)
(*                                                                         *)
(* Python strings are modelled as tuples of one-character strings, so that *)
(* lower(), substring containment, startswith() and len() are computed the *)
(* way the code computes them.  A datetime is the tuple                    *)
(* <<year, month, day, hour, minute>> (naive) with the zone name appended  *)
(* once it has been localized; Python's None is the empty tuple.           *)
(***************************************************************************)
EXTENDS Integers, Sequences, FiniteSets, TLC

VARIABLES
    pc,             \* position of the operation under study
    all_links,      \* scrape_events: the <a href> nodes of the listing page
    idx,            \* scrape_events: index of the next link of event_links
    seen_urls,      \* scrape_events: seen_urls
    events,         \* scrape_events: events
    requests,       \* scrape_events: the detail requests made, [url, response]
    components,     \* create_ical: the components added to the calendar
    page,           \* fetch_event_details: the response for event_url
    details,        \* fetch_event_details: the returned dict
    date_str,       \* parse_datetime: argument
    prefer_future,  \* parse_datetime: argument
    clock,          \* parse_datetime: what the two datetime.now() calls read
    parsed,         \* parse_datetime: outcome
    title,          \* get_event_icon: argument
    icon            \* get_event_icon: result

vars == <<pc, all_links, idx, seen_urls, events, requests, components, page,
          details, date_str, prefer_future, clock, parsed, title, icon>>

None == <<>>

-----------------------------------------------------------------------------
(* str helpers *)

UpperChars == <<"A","B","C","D","E","F","G","H","I","J","K","L","M","N","O","P","Q","R","S","T","U","V","W","X","Y","Z">>
LowerChars == <<"a","b","c","d","e","f","g","h","i","j","k","l","m","n","o","p","q","r","s","t","u","v","w","x","y","z">>

\* str.lower() on one character
LowerChar(c) ==
    IF \E i \in 1..Len(UpperChars) : UpperChars[i] = c
    THEN LowerChars[CHOOSE i \in 1..Len(UpperChars) : UpperChars[i] = c]
    ELSE c

\* str.lower()
Lower(s) == [i \in 1..Len(s) |-> LowerChar(s[i])]

\* needle in s
Contains(s, needle) ==
    \E i \in 1..(Len(s) - Len(needle) + 1) :
        SubSeq(s, i, i + Len(needle) - 1) = needle

\* s.startswith(prefix)
StartsWith(s, prefix) ==
    /\ Len(s) >= Len(prefix)
    /\ SubSeq(s, 1, Len(prefix)) = prefix

-----------------------------------------------------------------------------
(* get_event_icon *)

RaidHourKw    == {<<"r","a","i","d"," ","h","o","u","r">>}
RaidDayKw     == {<<"r","a","i","d"," ","d","a","y">>, <<"r","a","i","d"," ","w","e","e","k","e","n","d">>}
MegaRaidKw    == {<<"m","e","g","a"," ","r","a","i","d">>, <<"i","n"," ","m","e","g","a"," ","r","a","i","d","s">>}
RaidBattlesKw == {<<"i","n"," ","1","-","s","t","a","r">>, <<"i","n"," ","2","-","s","t","a","r">>, <<"i","n"," ","3","-","s","t","a","r">>,
                  <<"i","n"," ","4","-","s","t","a","r">>, <<"i","n"," ","5","-","s","t","a","r">>, <<"i","n"," ","6","-","s","t","a","r">>,
                  <<"r","a","i","d"," ","b","a","t","t","l","e","s">>}
MaxBattleKw   == {<<"m","a","x"," ","b","a","t","t","l","e">>, <<"m","a","x"," ","m","o","n","d","a","y">>, <<"d","y","n","a","m","a","x">>,
                  <<"g","i","g","a","n","t","a","m","a","x">>}
SpotlightKw   == {<<"s","p","o","t","l","i","g","h","t"," ","h","o","u","r">>}
CommunityKw   == {<<"c","o","m","m","u","n","i","t","y"," ","d","a","y">>}
BattleKw      == {<<"g","o"," ","b","a","t","t","l","e">>, <<"b","a","t","t","l","e"," ","l","e","a","g","u","e">>, <<"p","v","p">>}
FestivalKw    == {<<"f","e","s","t","i","v","a","l">>, <<"c","e","l","e","b","r","a","t","i","o","n">>}
HalloweenKw   == {<<"h","a","l","l","o","w","e","e","n">>}
GoPassKw      == {<<"g","o"," ","p","a","s","s">>}
WildAreaKw    == {<<"w","i","l","d"," ","a","r","e","a">>, <<"s","a","f","a","r","i">>}
SeasonKw      == {<<"s","e","a","s","o","n">>, <<"t","a","l","e","s"," ","o","f"," ","t","r","a","n","s","f","o","r","m","a","t","i","o","n">>}
TradeKw       == {<<"t","r","a","d","e">>}
ShowcaseKw    == {<<"s","h","o","w","c","a","s","e">>}
ResearchKw    == {<<"r","e","s","e","a","r","c","h">>}

\* any(k in title_lower for k in kws)
AnyIn(kws, title_lower) == \E k \in kws : Contains(title_lower, k)

\* The mega-raid and raid-battles tests in the opposite order.
get_event_icon_swapped(t) ==
    LET title_lower == Lower(t) IN
    IF AnyIn(RaidHourKw, title_lower) THEN "clock"
    ELSE IF AnyIn(RaidDayKw, title_lower) THEN "target"
    ELSE IF AnyIn(RaidBattlesKw, title_lower) THEN "swords"
    ELSE IF AnyIn(MegaRaidKw, title_lower) THEN "sparkles"
    ELSE IF AnyIn(MaxBattleKw, title_lower) THEN "star"
    ELSE IF AnyIn(SpotlightKw, title_lower) THEN "flashlight"
    ELSE IF AnyIn(CommunityKw, title_lower) THEN "people"
    ELSE IF AnyIn(BattleKw, title_lower) THEN "boxing-glove"
    ELSE IF AnyIn(FestivalKw, title_lower) THEN "party-popper"
    ELSE IF AnyIn(HalloweenKw, title_lower) THEN "pumpkin"
    ELSE IF AnyIn(GoPassKw, title_lower) THEN "ticket"
    ELSE IF AnyIn(WildAreaKw, title_lower) THEN "map"
    ELSE IF AnyIn(SeasonKw, title_lower) THEN "globe"
    ELSE IF AnyIn(TradeKw, title_lower) THEN "handshake"
    ELSE IF AnyIn(ShowcaseKw, title_lower) THEN "camera"
    ELSE IF AnyIn(ResearchKw, title_lower) THEN "magnifier"
    ELSE "calendar"

\* One name per emoji literal of the source.
get_event_icon(t) ==
    LET title_lower == Lower(t) IN
    IF AnyIn(RaidHourKw, title_lower) THEN "clock"
    ELSE IF AnyIn(RaidDayKw, title_lower) THEN "target"
    ELSE IF AnyIn(MegaRaidKw, title_lower) THEN "sparkles"
    ELSE IF AnyIn(RaidBattlesKw, title_lower) THEN "swords"
    ELSE IF AnyIn(MaxBattleKw, title_lower) THEN "star"
    ELSE IF AnyIn(SpotlightKw, title_lower) THEN "flashlight"
    ELSE IF AnyIn(CommunityKw, title_lower) THEN "people"
    ELSE IF AnyIn(BattleKw, title_lower) THEN "boxing-glove"
    ELSE IF AnyIn(FestivalKw, title_lower) THEN "party-popper"
    ELSE IF AnyIn(HalloweenKw, title_lower) THEN "pumpkin"
    ELSE IF AnyIn(GoPassKw, title_lower) THEN "ticket"
    ELSE IF AnyIn(WildAreaKw, title_lower) THEN "map"
    ELSE IF AnyIn(SeasonKw, title_lower) THEN "globe"
    ELSE IF AnyIn(TradeKw, title_lower) THEN "handshake"
    ELSE IF AnyIn(ShowcaseKw, title_lower) THEN "camera"
    ELSE IF AnyIn(ResearchKw, title_lower) THEN "magnifier"
    ELSE "calendar"

-----------------------------------------------------------------------------
(* datetime *)

Year(dt)   == dt[1]
Month(dt)  == dt[2]
Day(dt)    == dt[3]
Hour(dt)   == dt[4]
Minute(dt) == dt[5]

IsLeap(y) == (y % 4 = 0 /\ y % 100 # 0) \/ y % 400 = 0

DaysInMonth(y, m) ==
    IF m = 2 THEN (IF IsLeap(y) THEN 29 ELSE 28)
    ELSE IF m \in {4, 6, 9, 11} THEN 30 ELSE 31

\* a < b on datetimes of the same zone
Before(a, b) ==
    \E i \in 1..5 :
        /\ a[i] < b[i]
        /\ \A j \in 1..(i - 1) : a[j] = b[j]

\* dt + timedelta(hours=1): the zone of dt is kept
PlusOneHour(dt) ==
    LET zone == SubSeq(dt, 6, Len(dt)) IN
    IF Hour(dt) < 23
    THEN <<Year(dt), Month(dt), Day(dt), Hour(dt) + 1, Minute(dt)>> \o zone
    ELSE IF Day(dt) < DaysInMonth(Year(dt), Month(dt))
    THEN <<Year(dt), Month(dt), Day(dt) + 1, 0, Minute(dt)>> \o zone
    ELSE IF Month(dt) < 12
    THEN <<Year(dt), Month(dt) + 1, 1, 0, Minute(dt)>> \o zone
    ELSE <<Year(dt) + 1, 1, 1, 0, Minute(dt)>> \o zone

\* pytz.timezone('Europe/Brussels')
timezone == "Europe/Brussels"

\* self.timezone.localize(naive): the wall-clock fields are kept and the
\* zone is attached
localize(naive) == naive \o <<timezone>>

\* dt.strftime('%I:%M %p') as <<hour, minute, ampm>>
strftime_IMp(dt) ==
    <<((Hour(dt) + 11) % 12) + 1, Minute(dt),
      IF Hour(dt) < 12 THEN "AM" ELSE "PM">>

FullMonths == <<"January", "February", "March", "April", "May", "June",
                "July", "August", "September", "October", "November",
                "December">>
AbbrMonths == <<"Jan", "Feb", "Mar", "Apr", "May", "Jun", "Jul", "Aug", "Sep",
                "Oct", "Nov", "Dec">>

MonthNumber(names, tok) ==
    IF \E i \in 1..12 : names[i] = tok
    THEN CHOOSE i \in 1..12 : names[i] = tok
    ELSE 0

\* What a call returns (exc = FALSE) or that it raised (exc = TRUE).
Return(v) == [exc |-> FALSE, val |-> v]
Raise     == [exc |-> TRUE, val |-> None]

\* datetime.strptime(f"{mon} {day} {year} {hour}:{minute} {ampm}", fmt) with
\* fmt "%B %d %Y %I:%M %p" (names = FullMonths) or "%b %d %Y %I:%M %p"
\* (names = AbbrMonths): ValueError on an unknown month name, a day the
\* month does not have, an hour outside 1..12 or a minute outside 0..59.
strptime(names, mon, day, year, hour, minute, ampm) ==
    LET m == MonthNumber(names, mon) IN
    IF /\ m # 0
       /\ year >= 1
       /\ day >= 1
       /\ day <= DaysInMonth(year, m)
       /\ hour \in 1..12
       /\ minute \in 0..59
    THEN Return(<<year, m, day,
                  (hour % 12) + (IF ampm = "PM" THEN 12 ELSE 0), minute>>)
    ELSE Raise

-----------------------------------------------------------------------------
(* parse_datetime *)

(* A date string is a record of the fields the two patterns capture:       *)
(*   form "full"  : "<weekday>, <mon> <day>, <year>, at <hour>:<minute>     *)
(*                   <ampm> Local Time"                                     *)
(*   form "short" : "<weekday>, <mon> <day>, at <hour>:<minute> <ampm>      *)
(*                   Local Time" (year = 0: absent)                         *)
(*   form "other" : text neither pattern matches                           *)
(*   form "empty" : ""                                                     *)
(* ampm "am"/"pm" is what a re.IGNORECASE caller can capture; (AM|PM) of    *)
(* parse_datetime does not match it.                                       *)
DateString(form, mon, day, year, hour, minute, ampm) ==
    [form |-> form, mon |-> mon, day |-> day, year |-> year, hour |-> hour,
     minute |-> minute, ampm |-> ampm]

\* lines 57-84: the short-form branch
parse_short(s, pf, clk) ==
    LET current_year == clk.year
        first == strptime(AbbrMonths, s.mon, s.day, current_year, s.hour,
                          s.minute, s.ampm)
    IN  IF first.exc THEN Raise
        ELSE IF pf /\ Before(localize(first.val), clk.now)
        THEN LET again == strptime(AbbrMonths, s.mon, s.day,
                                   current_year + 1, s.hour, s.minute, s.ampm)
             IN  IF again.exc THEN Raise ELSE Return(localize(again.val))
        ELSE Return(localize(first.val))

\* lines 47-55: the full-form branch
parse_full(s) ==
    LET p == strptime(FullMonths, s.mon, s.day, s.year, s.hour, s.minute,
                      s.ampm)
    IN  IF p.exc THEN Raise ELSE Return(localize(p.val))

parse_datetime(s, pf, clk) ==
    IF s.form = "empty" THEN Return(None)
    ELSE IF s.form = "full" /\ s.ampm \in {"AM", "PM"} THEN parse_full(s)
    ELSE IF s.form = "short" /\ s.ampm \in {"AM", "PM"}
    THEN parse_short(s, pf, clk)
    ELSE Return(None)

-----------------------------------------------------------------------------
(* fetch_event_details *)

(* The response for a detail URL, as the queries of the code see it:       *)
(*   ok        : FALSE when requests.get / raise_for_status raises         *)
(*   h1, title_tag : [present, text] of soup.find('h1'), soup.find('title')*)
(*   text      : soup.get_text() as the sequence of its dated fragments,   *)
(*               each [kind, d] with d a date string:                      *)
(*                 "starts" : "Starts: <full date> Local Time"             *)
(*                 "ends"   : "Ends: <full date> Local Time"               *)
(*                 "date"   : "<full date> Local Time"                     *)
(*                 "range1" : "from <date> to <date>, at <time>", d the    *)
(*                            string composed from groups 1 and 2          *)
(*                 "range2" : "from <Mon D, YYYY> to <Mon D, YYYY>", d the *)
(*                            second date (its time fields are unused)     *)
(*   dom       : per selector, [present, paragraphs] of select_one and     *)
(*               find_all('p')                                             *)

IsSpace(c) == c \in {" ", "\n", "\t"}

RECURSIVE LStrip(_)
LStrip(s) == IF s # <<>> /\ IsSpace(Head(s)) THEN LStrip(Tail(s)) ELSE s

RECURSIVE RStrip(_)
RStrip(s) ==
    IF s # <<>> /\ IsSpace(s[Len(s)])
    THEN RStrip(SubSeq(s, 1, Len(s) - 1))
    ELSE s

\* get_text(strip=True) of a node holding one string
Strip(s) == RStrip(LStrip(s))

\* r'\s*<sep>\s*<marker>.*$' matches s from position i
SuffixMatchAt(s, i, sep, marker) ==
    \E j \in i..Len(s) :
        /\ s[j] = sep
        /\ \A x \in i..(j - 1) : IsSpace(s[x])
        /\ \E k \in (j + 1)..(Len(s) - Len(marker) + 1) :
              /\ SubSeq(s, k, k + Len(marker) - 1) = marker
              /\ \A x \in (j + 1)..(k - 1) : IsSpace(s[x])

\* re.sub(r'\s*<sep>\s*<marker>.*$', '', s): the text before the leftmost
\* match
StripSuffix(s, sep, marker) ==
    LET starts == {i \in 1..Len(s) : SuffixMatchAt(s, i, sep, marker)} IN
    IF starts = {} THEN s
    ELSE SubSeq(s, 1, (CHOOSE i \in starts : \A o \in starts : i <= o) - 1)

LeekDuckMarker == <<"L","e","e","k"," ","D","u","c","k">>
PokemonGoMarker == <<"P","o","k">> \o <<"e-acute">> \o <<"m","o","n"," ","G","O">>

\* lines 106-115
extract_title(p) ==
    LET title_elem == IF p.h1.present THEN p.h1 ELSE p.title_tag IN
    IF title_elem.present
    THEN StripSuffix(StripSuffix(Strip(title_elem.text), "-", LeekDuckMarker),
                     "|", PokemonGoMarker)
    ELSE <<>>

\* re.search of a labelled or range pattern (all re.IGNORECASE): the index
\* of the first fragment of that kind, 0 when there is none
search(text, kind) ==
    LET hits == {i \in 1..Len(text) : text[i].kind = kind} IN
    IF hits = {} THEN 0 ELSE CHOOSE i \in hits : \A o \in hits : i <= o

\* date_pattern matches inside the fragment: a full date with upper-case
\* AM/PM followed by "Local Time"
IsDateMatch(f) ==
    /\ f.kind \in {"starts", "ends", "date"}
    /\ f.d.ampm \in {"AM", "PM"}

\* re.findall(date_pattern, text_content)
findall_dates(text) ==
    LET hits == SelectSeq(text, IsDateMatch) IN
    [i \in 1..Len(hits) |-> hits[i].d]

\* f"Monday, {end_date}, at {start_time} Local Time" (line 155)
range2_end_string(d, start) ==
    LET t == strftime_IMp(start) IN
    DateString("full", d.mon, d.day, d.year, t[1], t[2], t[3])

\* The wall clock of the run.  fetch_event_details hands parse_datetime
\* full-form strings only, which never read it.
RunClock == [year |-> 2025, now |-> localize(<<2025, 10, 1, 9, 0>>)]

\* lines 121-132
extract_start(p) ==
    LET start_match == search(p.text, "starts")
        dates == findall_dates(p.text)
    IN  IF start_match # 0
        THEN parse_datetime(p.text[start_match].d, FALSE, RunClock)
        ELSE IF Len(dates) >= 1
        THEN parse_datetime(dates[1], FALSE, RunClock)
        ELSE Return(None)

\* lines 134-159, given details['start'].  `dates` is assigned only in the
\* else branch of the start extraction (line 130): reading it at line 157
\* after a "Starts:" match raises NameError.
extract_end(p, start) ==
    LET start_match == search(p.text, "starts")
        end_match == search(p.text, "ends")
        range_match == search(p.text, "range1")
        range_match2 == search(p.text, "range2")
        dates == findall_dates(p.text)
    IN  IF end_match # 0
        THEN parse_datetime(p.text[end_match].d, FALSE, RunClock)
        ELSE IF range_match # 0
        THEN parse_datetime(p.text[range_match].d, FALSE, RunClock)
        ELSE IF range_match2 # 0 /\ start # None
        THEN parse_datetime(range2_end_string(p.text[range_match2].d, start),
                            FALSE, RunClock)
        ELSE IF start_match # 0 THEN Raise
        ELSE IF Len(dates) >= 2
        THEN parse_datetime(dates[Len(dates)], FALSE, RunClock)
        ELSE Return(None)

desc_selectors == <<"div.entry-content", "div.event-description",
                    "div.content", "article", "main">>

MinParagraphLen == 20
MaxParagraphs == 5

CookieWord == <<"c","o","o","k","i","e">>

\* line 181
Qualifies(text) ==
    /\ text # <<>>
    /\ Len(text) > MinParagraphLen
    /\ ~Contains(Lower(text), CookieWord)

\* '\n\n'.join(parts)
RECURSIVE Join(_)
Join(parts) ==
    IF parts = <<>> THEN <<>>
    ELSE IF Len(parts) = 1 THEN parts[1]
    ELSE parts[1] \o <<"\n", "\n">> \o Join(Tail(parts))

\* lines 177-183
assemble_description(paragraphs) ==
    LET texts == [i \in 1..Len(paragraphs) |-> Strip(paragraphs[i])]
        desc_parts == SelectSeq(texts, Qualifies)
    IN  Join(SubSeq(desc_parts, 1,
                    IF Len(desc_parts) < MaxParagraphs
                    THEN Len(desc_parts) ELSE MaxParagraphs))

\* select_one(selector) found an element and find_all('p') is not empty
HasParagraphs(p, i) ==
    /\ p.dom[desc_selectors[i]].present
    /\ p.dom[desc_selectors[i]].paragraphs # <<>>

\* A selector whose paragraphs all fail the filter is passed over.
extract_description_fallthrough(p) ==
    LET hits == {i \in 1..Len(desc_selectors) :
                    /\ HasParagraphs(p, i)
                    /\ assemble_description(
                           p.dom[desc_selectors[i]].paragraphs) # <<>>}
    IN  IF hits = {} THEN <<>>
        ELSE assemble_description(
                 p.dom[desc_selectors[
                     CHOOSE i \in hits : \A o \in hits : i <= o]].paragraphs)

\* lines 171-184: the loop breaks at the first selector with paragraphs
extract_description(p) ==
    LET hits == {i \in 1..Len(desc_selectors) : HasParagraphs(p, i)} IN
    IF hits = {} THEN <<>>
    ELSE assemble_description(
             p.dom[desc_selectors[
                 CHOOSE i \in hits : \A o \in hits : i <= o]].paragraphs)

\* line 190
EmptyDetails ==
    [title |-> <<>>, start |-> None, end |-> None, description |-> <<>>]

\* lines 91-190: any exception inside the try gives the all-empty dict
fetch_event_details(p) ==
    IF ~p.ok THEN EmptyDetails
    ELSE LET start == extract_start(p) IN
         IF start.exc THEN EmptyDetails
         ELSE LET end == extract_end(p, start.val) IN
              IF end.exc THEN EmptyDetails
              ELSE [title |-> extract_title(p), start |-> start.val,
                    end |-> end.val,
                    description |-> extract_description(p)]

-----------------------------------------------------------------------------
(* scrape_events *)

EventsPrefix == <<"/","e","v","e","n","t","s","/">>
SiteRoot == <<"h","t","t","p","s",":","/","/","l","e","e","k","d","u","c","k",".","c","o","m">>
MinHrefLen == 10

\* lines 267-272
IsEventLink(a) ==
    /\ StartsWith(a.href, EventsPrefix)
    /\ a.href # EventsPrefix
    /\ Len(a.href) > MinHrefLen

event_links == SelectSeq(all_links, IsEventLink)

\* line 279
detail_url_of(link) == SiteRoot \o link.href

\* title_text.split('\n')[0] if '\n' in title_text else title_text
RECURSIVE FirstLine(_)
FirstLine(s) ==
    IF s = <<>> \/ Head(s) = "\n" THEN <<>>
    ELSE <<Head(s)>> \o FirstLine(Tail(s))

\* lines 287-288
fallback_title_of(link) == FirstLine(Strip(link.text))

\* Every URL is taken for new.
already_seen_never(url, seen) == FALSE

\* line 282
already_seen(url, seen) == url \in seen

\* A candidate is dropped only when it has neither start nor end.
has_start_or_end(d) == d.start # None \/ d.end # None

\* line 307 (an aware datetime is always truthy)
has_start(d) == d.start # None

\* The default end is the start itself.
default_end_zero(event_start) == event_start

\* line 313
default_end(event_start) == PlusOneHour(event_start)

PlaceholderDescription == <<"E","v","e","n","t"," ","d","e","t","a","i","l","s"," ","f","r","o","m"," ","L","e","e","k","D","u","c","k">>

\* lines 294-322
make_event(link, d) ==
    LET final_title ==
            IF d.title # <<>> THEN d.title ELSE fallback_title_of(link)
        title_with_icon ==
            <<get_event_icon(final_title)>> \o <<" ">> \o final_title
    IN  [title |-> title_with_icon,
         start |-> d.start,
         end |-> IF d.end # None THEN d.end ELSE default_end(d.start),
         description |-> IF d.description # <<>> THEN d.description
                         ELSE PlaceholderDescription,
         image_url |-> <<>>,
         url |-> detail_url_of(link)]

\* The new record is put in front.
add_event_front(evs, e) == <<e>> \o evs

\* line 315
add_event(evs, e) == Append(evs, e)

\* The try body of fetch_event_details raised (lines 188-190 ran).
details_failed(p) ==
    \/ ~p.ok
    \/ extract_start(p).exc
    \/ (~extract_start(p).exc /\ extract_end(p, extract_start(p).val).exc)

\* A failed candidate ends the run.
after_candidate_abort(failed) == IF failed THEN "aborted" ELSE "scan"

\* Where the loop goes after a candidate: the handlers of lines 188-190 and
\* 324-326 swallow the failure and the loop goes on to the next link.
after_candidate(failed) == "scan"

-----------------------------------------------------------------------------
(* create_ical *)

\* self.url
ListingUrl == <<"h","t","t","p","s",":","/","/","l","e","e","k","d","u","c","k",".","c","o","m","/","e","v","e","n","t","s","/">>

\* dt.isoformat(): date, time and zone offset of dt, in text
isoformat(dt) ==
    [date |-> <<Year(dt), Month(dt), Day(dt)>>,
     time |-> <<Hour(dt), Minute(dt), 0>>,
     offset |-> SubSeq(dt, 6, Len(dt))]

\* hash(s): a function of the characters of s, taken collision-free
hash(s) == <<"hash">> \o s

\* line 361
uid_of(event_data) ==
    [iso |-> isoformat(event_data.start), h |-> hash(event_data.title)]

\* lines 340-361
make_component(event_data) ==
    LET more_info ==
            IF event_data.url # <<>> /\ event_data.url # ListingUrl
            THEN <<"\n","\n","M","o","r","e"," ","i","n","f","o",":"," ">> \o event_data.url ELSE <<>>
        image ==
            IF event_data.image_url # <<>>
            THEN <<"\n","\n","I","m","a","g","e",":"," ">> \o event_data.image_url ELSE <<>>
    IN  [summary |-> event_data.title,
         dtstart |-> event_data.start,
         dtend |-> event_data.end,
         description |-> event_data.description \o more_info \o image
                         \o <<"\n","\n","D","a","t","a"," ","f","r","o","m"," ","L","e","e","k","D","u","c","k",".","c","o","m">>,
         location |-> <<"P","o","k","e","m","o","n"," ","G","O">>,
         url |-> event_data.url,
         uid |-> uid_of(event_data)]

-----------------------------------------------------------------------------
(* Inputs *)

MaxLinks == 3       \* links on the listing page
MaxFragments == 2   \* dated fragments in the text of a detail page
MaxParas == 6       \* <p> nodes under one content element
MaxTitleParts == 2  \* phrases a title is made of

SeqsUpTo(S, n) == UNION {[1..k -> S] : k \in 0..n}

Frag(kind, d) == [kind |-> kind, d |-> d]
Elem(present, paragraphs) == [present |-> present, paragraphs |-> paragraphs]
NoElem == Elem(FALSE, <<>>)

Oct7   == DateString("full", "October", 7, 2025, 10, 0, "AM")
Oct14  == DateString("full", "October", 14, 2025, 8, 0, "PM")
Dec31  == DateString("full", "December", 31, 2025, 11, 30, "PM")
OctAbbr  == DateString("full", "Oct", 14, 2025, 8, 0, "PM")
Oct14Lower == DateString("full", "October", 14, 2025, 8, 0, "pm")

GoodParagraph == <<" ","C","a","t","c","h"," ","a"," ","w","i","l","d"," ","P","i","k","a","c","h","u"," ","d","u","r","i","n","g"," ","t","h","e"," ","e","v","e","n","t","."," ">>

NoDom == [s \in {desc_selectors[i] : i \in 1..Len(desc_selectors)} |-> NoElem]
ArticleDom == [NoDom EXCEPT !["article"] = Elem(TRUE, <<GoodParagraph>>)]

Page(ok, h1, title_tag, text, dom) ==
    [ok |-> ok, h1 |-> h1, title_tag |-> title_tag, text |-> text, dom |-> dom]

NoNode == [present |-> FALSE, text |-> <<>>]
Node(text) == [present |-> TRUE, text |-> text]

RaidHourH1 == Node(<<"R","a","i","d"," ","H","o","u","r"," ","-"," ","L","e","e","k"," ","D","u","c","k">>)
CommunityH1 == Node(<<"C","o","m","m","u","n","i","t","y"," ","D","a","y">>)
SiteTitleTag == Node(<<"E","v","e","n","t","s"," ","|"," ","P","o","k">> \o <<"e-acute">> \o <<"m","o","n"," ","G","O"," ","H","u","b">>)

\* requests.get or raise_for_status raises.
FailedPage == Page(FALSE, NoNode, NoNode, <<>>, NoDom)

\* The responses a detail URL of the listing can get.
ListingPages ==
    { Page(FALSE, NoNode, NoNode, <<>>, NoDom),
      Page(TRUE, CommunityH1, SiteTitleTag, <<>>, ArticleDom),
      Page(TRUE, CommunityH1, SiteTitleTag, <<Frag("range1", Oct14)>>,
           ArticleDom),
      Page(TRUE, RaidHourH1, SiteTitleTag, <<Frag("date", Dec31)>>, NoDom),
      Page(TRUE, NoNode, NoNode, <<Frag("starts", Oct7)>>, ArticleDom),
      Page(TRUE, NoNode, NoNode,
           <<Frag("starts", Oct7), Frag("ends", Oct14)>>, ArticleDom) }

Link(href, text) == [href |-> href, text |-> text]

\* The <a href> nodes a listing page is made of.
LinkPool ==
    { Link(<<"/","e","v","e","n","t","s","/","r","a","i","d","-","h","o","u","r","/">>, <<" ","R","a","i","d"," ","H","o","u","r","\n","W","e","d",","," ","O","c","t"," ","8"," ">>),
      Link(<<"/","e","v","e","n","t","s","/","c","o","m","m","-","d","a","y","/">>, <<"C","o","m","m","u","n","i","t","y"," ","D","a","y">>),
      Link(<<"/","e","v","e","n","t","s","/","g","o","-","f","e","s","t","/">>, <<"G","O"," ","F","e","s","t">>),
      Link(<<"/","e","v","e","n","t","s","/","x","/">>, <<"x">>),
      Link(<<"/","a","b","o","u","t","/","e","v","e","n","t","s","/">>, <<"A","b","o","u","t">>) }

\* The listing pages of at most n links.
ListingsOf(n) == SeqsUpTo(LinkPool, n)

IdlePage == Page(TRUE, NoNode, NoNode, <<>>, NoDom)
IdleDate == DateString("empty", "", 0, 0, 0, 0, "")

ScrapeIdle ==
    /\ all_links = <<>>
    /\ idx = 0
    /\ seen_urls = {}
    /\ events = <<>>
    /\ requests = <<>>
    /\ components = <<>>

DetailIdle ==
    /\ page = IdlePage
    /\ details = EmptyDetails

ParseIdle ==
    /\ date_str = IdleDate
    /\ prefer_future = FALSE
    /\ clock = RunClock
    /\ parsed = Return(None)

IconIdle ==
    /\ title = <<>>
    /\ icon = ""

scrape_vars == <<all_links, idx, seen_urls, events, requests, components>>
detail_vars == <<page, details>>
parse_vars == <<date_str, prefer_future, clock, parsed>>
icon_vars == <<title, icon>>

-----------------------------------------------------------------------------
(* main: scrape_events, then create_ical *)

Init ==
    /\ pc = "start"
    /\ all_links \in ListingsOf(MaxLinks)
    /\ idx = 0
    /\ seen_urls = {}
    /\ events = <<>>
    /\ requests = <<>>
    /\ components = <<>>
    /\ DetailIdle /\ ParseIdle /\ IconIdle

\* line 259: the listing page is fetched; lines 260-274
FetchPage ==
    /\ pc = "start"
    /\ pc' = "scan"
    /\ idx' = 1
    /\ UNCHANGED <<all_links, seen_urls, events, requests, components>>
    /\ UNCHANGED <<detail_vars, parse_vars, icon_vars>>

\* line 259: requests.get or raise_for_status raises, and so does
\* scrape_events
FetchPageFails ==
    /\ pc = "start"
    /\ pc' = "aborted"
    /\ UNCHANGED <<scrape_vars, detail_vars, parse_vars, icon_vars>>

\* lines 276-326: one iteration of the scan loop
ScanLink ==
    /\ pc = "scan"
    /\ idx <= Len(event_links)
    /\ LET link == event_links[idx]
           detail_url == detail_url_of(link)
       IN  \/ /\ already_seen(detail_url, seen_urls)
              /\ idx' = idx + 1
              /\ UNCHANGED <<pc, seen_urls, events, requests>>
           \/ /\ ~already_seen(detail_url, seen_urls)
              /\ seen_urls' = seen_urls \cup {detail_url}
              /\ \E p \in ListingPages :
                    LET d == fetch_event_details(p) IN
                    /\ requests' =
                           Append(requests, [url |-> detail_url, response |-> p])
                    /\ events' = IF has_start(d)
                                 THEN add_event(events, make_event(link, d))
                                 ELSE events
                    /\ pc' = after_candidate(details_failed(p))
              /\ idx' = idx + 1
    /\ UNCHANGED <<all_links, components>>
    /\ UNCHANGED <<detail_vars, parse_vars, icon_vars>>

\* line 328
ReturnEvents ==
    /\ pc = "scan"
    /\ idx > Len(event_links)
    /\ pc' = "scraped"
    /\ UNCHANGED <<scrape_vars, detail_vars, parse_vars, icon_vars>>

\* lines 339-363: one iteration of create_ical
AddComponent ==
    /\ pc = "scraped"
    /\ Len(components) < Len(events)
    /\ components' =
           Append(components, make_component(events[Len(components) + 1]))
    /\ UNCHANGED <<pc, all_links, idx, seen_urls, events, requests>>
    /\ UNCHANGED <<detail_vars, parse_vars, icon_vars>>

\* line 365
ReturnCalendar ==
    /\ pc = "scraped"
    /\ Len(components) = Len(events)
    /\ pc' = "exported"
    /\ UNCHANGED <<scrape_vars, detail_vars, parse_vars, icon_vars>>

Next ==
    \/ FetchPage
    \/ FetchPageFails
    \/ ScanLink
    \/ ReturnEvents
    \/ AddComponent
    \/ ReturnCalendar

Spec == Init /\ [][Next]_vars

-----------------------------------------------------------------------------
(* fetch_event_details on its own *)

DatePool == {Oct7, Oct14, OctAbbr, Oct14Lower}
FragmentKinds == {"starts", "ends", "date", "range1", "range2"}
FragmentPool == {Frag(k, d) : k \in FragmentKinds, d \in DatePool}

\* A page that differs from the others in its dated text.
DatePage(h1, text) == Page(TRUE, h1, SiteTitleTag, text, ArticleDom)

Digits == <<"1","2","3","4","5","6","7","8","9">>

\* The text of the i-th <p> of a content element, by kind: 21 characters
\* once stripped ("good"), 20 ("exact"), 10 ("short"), or long with a
\* capitalised "Cookies" in it ("cookie").
ParaText(kind, i) ==
    IF kind = "good" THEN <<" ","C","a","t","c","h"," ","a"," ","w","i","l","d"," ","P","i","k","a","c","h","u">> \o <<Digits[i]>>
    ELSE IF kind = "exact"
    THEN <<" ","T","r","a","d","e"," ","w","i","t","h"," ","a"," ","f","r","i","e","n","d">> \o <<Digits[i]>> \o <<" "," ">>
    ELSE IF kind = "short" THEN <<"T","a","p"," ","h","e","r","e"," ">> \o <<Digits[i]>>
    ELSE <<"W","e"," ","u","s","e"," ","C","o","o","k","i","e","s"," ","o","n"," ","t","h","i","s"," ","s","i","t","e"," ">> \o <<Digits[i]>>

ParaKinds == {"good", "exact", "short", "cookie"}

\* One content element holds the paragraphs `kinds`; the elements of the
\* other selectors are all absent, all without <p>, or all with one <p>.
DescDom(rich, kinds, others) ==
    [s \in DOMAIN NoDom |->
        IF s = rich
        THEN Elem(TRUE, [i \in 1..Len(kinds) |-> ParaText(kinds[i], i)])
        ELSE IF others = "absent" THEN NoElem
        ELSE IF others = "empty" THEN Elem(TRUE, <<>>)
        ELSE Elem(TRUE, <<GoodParagraph>>)]

Layouts ==
    { <<"div.entry-content", "filler">>, <<"div.content", "filler">>,
      <<"article", "empty">>, <<"main", "absent">> }

\* A page that differs from the others in its content elements.
DescPage(layout, kinds) ==
    Page(TRUE, CommunityH1, SiteTitleTag, <<Frag("date", Oct7)>>,
         DescDom(layout[1], kinds, layout[2]))

InitDetail ==
    /\ pc = "request"
    /\ \/ page = FailedPage
       \/ \E h1 \in {RaidHourH1, NoNode} :
             \E text \in SeqsUpTo(FragmentPool, MaxFragments) :
                 page = DatePage(h1, text)
       \/ \E layout \in Layouts :
             \E kinds \in SeqsUpTo(ParaKinds, MaxParas) :
                 page = DescPage(layout, kinds)
    /\ details = EmptyDetails
    /\ ScrapeIdle /\ ParseIdle /\ IconIdle

\* lines 86-190
FetchEventDetails ==
    /\ pc = "request"
    /\ details' = fetch_event_details(page)
    /\ pc' = "returned"
    /\ UNCHANGED <<page, scrape_vars, parse_vars, icon_vars>>

NextDetail == FetchEventDetails

SpecDetail == InitDetail /\ [][NextDetail]_vars

-----------------------------------------------------------------------------
(* parse_datetime on its own *)

ParseInputs ==
    {DateString("full", mon, day, year, hour, 0, ampm) :
        mon \in {"October", "Oct", "February"}, day \in {13, 29, 31},
        year \in {2024, 2025}, hour \in {7, 12, 13},
        ampm \in {"AM", "PM", "am"}}
    \cup
    {DateString("short", mon, day, 0, hour, 0, ampm) :
        mon \in {"Oct", "October", "Feb"}, day \in {13, 29, 31},
        hour \in {7, 12, 13}, ampm \in {"AM", "PM", "am"}}
    \cup
    {DateString("other", "", 0, 0, 0, 0, ""), IdleDate}

\* year: datetime.now().year (line 67, the system's zone); now:
\* datetime.now(self.timezone) (line 77).  In the last clock the system's
\* zone is behind Brussels, where the new year has begun.
Clocks ==
    { [year |-> 2024, now |-> localize(<<2024, 1, 15, 9, 0>>)],
      [year |-> 2024, now |-> localize(<<2024, 6, 1, 9, 0>>)],
      [year |-> 2024, now |-> localize(<<2024, 10, 13, 19, 0>>)],
      [year |-> 2025, now |-> localize(<<2025, 6, 1, 9, 0>>)],
      [year |-> 2024, now |-> localize(<<2025, 1, 1, 0, 30>>)] }

InitParse ==
    /\ pc = "call"
    /\ date_str \in ParseInputs
    /\ prefer_future \in BOOLEAN
    /\ clock \in Clocks
    /\ parsed = Return(None)
    /\ ScrapeIdle /\ DetailIdle /\ IconIdle

\* lines 33-84
ParseDatetime ==
    /\ pc = "call"
    /\ parsed' = parse_datetime(date_str, prefer_future, clock)
    /\ pc' = IF parsed'.exc THEN "raised" ELSE "returned"
    /\ UNCHANGED <<date_str, prefer_future, clock>>
    /\ UNCHANGED <<scrape_vars, detail_vars, icon_vars>>

NextParse == ParseDatetime

SpecParse == InitParse /\ [][NextParse]_vars

-----------------------------------------------------------------------------
(* get_event_icon on its own *)

Phrases ==
    { <<"M","e","g","a"," ">>, <<"R","a","i","d"," ","B","a","t","t","l","e","s">>, <<"5","-","S","t","a","r"," ">>, <<"R","a","i","d"," ","H","o","u","r">>,
      <<"R","a","i","d"," ","D","a","y"," ">>, <<"i","n"," ","M","e","g","a"," ","R","a","i","d","s">>, <<" ","i","n"," ","5","-","s","t","a","r"," ","R","a","i","d","s">>,
      <<"M","a","x"," ","B","a","t","t","l","e"," ">>, <<"S","p","o","t","l","i","g","h","t"," ","H","o","u","r">>, <<"C","o","m","m","u","n","i","t","y"," ","D","a","y"," ">>,
      <<"P","v","P"," ">>, <<"F","e","s","t","i","v","a","l"," ">>, <<"H","A","L","L","O","W","E","E","N"," ">>, <<"G","O"," ","P","a","s","s"," ">>,
      <<"S","a","f","a","r","i"," ">>, <<"S","e","a","s","o","n"," ">>, <<"T","r","a","d","e">>, <<"S","h","o","w","c","a","s","e">>,
      <<" ","R","e","s","e","a","r","c","h">>, <<"P","i","k","a","c","h","u"," ">>, <<"B">> }

RECURSIVE TitlesOf(_)
TitlesOf(n) ==
    IF n = 0 THEN {<<>>}
    ELSE LET shorter == TitlesOf(n - 1) IN
         shorter \cup {t \o ph : t \in shorter, ph \in Phrases}

InitIcon ==
    /\ pc = "call"
    /\ title \in TitlesOf(MaxTitleParts)
    /\ icon = ""
    /\ ScrapeIdle /\ DetailIdle /\ ParseIdle

\* lines 192-255
GetEventIcon ==
    /\ pc = "call"
    /\ icon' = get_event_icon(title)
    /\ pc' = "returned"
    /\ UNCHANGED <<title, scrape_vars, detail_vars, parse_vars>>

NextIcon == GetEventIcon

SpecIcon == InitIcon /\ [][NextIcon]_vars

-----------------------------------------------------------------------------
(* Properties *)

\* What fetch_event_details returned for a request of the run.
DetailsOf(r) == fetch_event_details(r.response)

EventsWithUrl(url) == {j \in 1..Len(events) : events[j].url = url}

\* C1: scrape_events never emits a record whose start is None: a candidate
\* whose details have start = None contributes no record, whatever its
\* title, end and description are.
C1_NoRecordWithoutStart ==
    /\ \A j \in 1..Len(events) : events[j].start # None
    /\ \A i \in 1..Len(requests) :
          DetailsOf(requests[i]).start = None
              => EventsWithUrl(requests[i].url) = {}

\* A finished scan in which a candidate with a title, an end and a
\* description but no start was dropped.
C1_Witness ==
    /\ pc = "scraped"
    /\ \E i \in 1..Len(requests) :
          LET d == DetailsOf(requests[i]) IN
          /\ d.start = None
          /\ d.end # None
          /\ d.title # <<>>
          /\ d.description # <<>>
          /\ EventsWithUrl(requests[i].url) = {}

\* Minutes from 2000-01-01 00:00 to dt, on the wall clock of dt's zone.
RECURSIVE DaysBeforeYear(_)
DaysBeforeYear(y) ==
    IF y <= 2000 THEN 0
    ELSE DaysBeforeYear(y - 1) + (IF IsLeap(y - 1) THEN 366 ELSE 365)

RECURSIVE DaysBeforeMonth(_, _)
DaysBeforeMonth(y, m) ==
    IF m <= 1 THEN 0
    ELSE DaysBeforeMonth(y, m - 1) + DaysInMonth(y, m - 1)

ToMinutes(dt) ==
    ((DaysBeforeYear(Year(dt)) + DaysBeforeMonth(Year(dt), Month(dt))
        + Day(dt) - 1) * 24 + Hour(dt)) * 60 + Minute(dt)

\* C2: a candidate with a resolved start and no end gives a record whose
\* end is its start plus exactly one hour; a resolved end is kept as it is.
C2_EndDefaultsToOneHour ==
    \A i \in 1..Len(requests) : \A j \in EventsWithUrl(requests[i].url) :
        LET d == DetailsOf(requests[i]) IN
        /\ events[j].start = d.start
        /\ d.end = None =>
              /\ ToMinutes(events[j].end) = ToMinutes(d.start) + 60
              /\ events[j].end[6] = d.start[6]
        /\ d.end # None => events[j].end = d.end

\* A finished scan with a defaulted end that crosses midnight and a record
\* whose extracted end was kept.
C2_Witness ==
    /\ pc = "scraped"
    /\ \E i \in 1..Len(requests) : \E j \in EventsWithUrl(requests[i].url) :
          /\ DetailsOf(requests[i]).end = None
          /\ Day(events[j].end) # Day(events[j].start)
    /\ \E i \in 1..Len(requests) : \E j \in EventsWithUrl(requests[i].url) :
          DetailsOf(requests[i]).end # None

\* C3: no two records share a url and no detail URL is requested twice,
\* however often its href occurs in the listing; a requested URL is in
\* seen_urls.
C3_OneRecordPerUrl ==
    /\ \A i, j \in 1..Len(events) :
          i # j => events[i].url # events[j].url
    /\ \A i, j \in 1..Len(requests) :
          i # j => requests[i].url # requests[j].url
    /\ \A i \in 1..Len(requests) : requests[i].url \in seen_urls

\* A finished scan of a listing that repeats an href: its one request
\* failed, the later link was skipped, and another link gave a record.
C3_Witness ==
    /\ pc = "scraped"
    /\ Len(events) = 1
    /\ Len(requests) = 2
    /\ \E i, j \in 1..Len(event_links) :
          /\ i < j
          /\ event_links[i].href = event_links[j].href
          /\ EventsWithUrl(detail_url_of(event_links[i])) = {}
          /\ \E r \in 1..Len(requests) :
                /\ requests[r].url = detail_url_of(event_links[i])
                /\ details_failed(requests[r].response)

\* Index in event_links of the first link to url.
FirstOccurrence(url) ==
    CHOOSE i \in 1..Len(event_links) :
        /\ detail_url_of(event_links[i]) = url
        /\ \A k \in 1..(i - 1) : detail_url_of(event_links[k]) # url

C4_InListingOrder ==
    \A i, j \in 1..Len(events) :
        i < j => FirstOccurrence(events[i].url) < FirstOccurrence(events[j].url)

C4_OnlyAppended ==
    \/ events' = events
    \/ /\ Len(events') = Len(events) + 1
       /\ SubSeq(events', 1, Len(events)) = events

\* C4: the records are in the order of the first occurrences of their links
\* in the listing, and a step of the run leaves events as it is or appends
\* one record to it.
C4_ListingOrderKept == []C4_InListingOrder /\ [][C4_OnlyAppended]_vars

\* A finished scan with two records around a dropped candidate.
C4_Witness ==
    /\ pc = "scraped"
    /\ Len(events) >= 2
    /\ \E i \in 1..Len(requests) :
          /\ EventsWithUrl(requests[i].url) = {}
          /\ requests[1].url = events[1].url
          /\ 1 < i
          /\ i < Len(requests)

\* C5: only a failed listing fetch aborts the run; the scan loop can
\* always take its next step; and when the scan has returned, every event
\* link was reached and every candidate that did not fail and has a start
\* has its record.
C5_FailuresIsolated ==
    /\ pc = "aborted" => idx = 0 /\ requests = <<>>
    /\ pc = "scan" => ENABLED (ScanLink \/ ReturnEvents)
    /\ pc \in {"scraped", "exported"} =>
          /\ idx = Len(event_links) + 1
          /\ \A k \in 1..Len(event_links) :
                \E i \in 1..Len(requests) :
                    requests[i].url = detail_url_of(event_links[k])
          /\ \A i \in 1..Len(requests) :
                (~details_failed(requests[i].response)
                    /\ DetailsOf(requests[i]).start # None)
                    => EventsWithUrl(requests[i].url) # {}

\* A finished scan in which a network error and an internal exception were
\* followed by a candidate that gave its record.
C5_Witness ==
    /\ pc = "scraped"
    /\ \E i, j, k \in 1..Len(requests) :
          /\ i < k /\ j < k
          /\ ~requests[i].response.ok
          /\ requests[j].response.ok
          /\ details_failed(requests[j].response)
          /\ EventsWithUrl(requests[k].url) # {}

\* The rules in the order the claim lists them, each with its glyph.
Rules ==
    << [glyph |-> "clock", kw |-> RaidHourKw],
       [glyph |-> "target", kw |-> RaidDayKw],
       [glyph |-> "sparkles", kw |-> MegaRaidKw],
       [glyph |-> "swords", kw |-> RaidBattlesKw],
       [glyph |-> "star", kw |-> MaxBattleKw],
       [glyph |-> "flashlight", kw |-> SpotlightKw],
       [glyph |-> "people", kw |-> CommunityKw],
       [glyph |-> "boxing-glove", kw |-> BattleKw],
       [glyph |-> "party-popper", kw |-> FestivalKw],
       [glyph |-> "pumpkin", kw |-> HalloweenKw],
       [glyph |-> "ticket", kw |-> GoPassKw],
       [glyph |-> "map", kw |-> WildAreaKw],
       [glyph |-> "globe", kw |-> SeasonKw],
       [glyph |-> "handshake", kw |-> TradeKw],
       [glyph |-> "camera", kw |-> ShowcaseKw],
       [glyph |-> "magnifier", kw |-> ResearchKw] >>

\* The rules one of whose keywords occurs in the lower-cased title.
MatchingRules(t) ==
    {i \in 1..Len(Rules) : \E k \in Rules[i].kw : Contains(Lower(t), k)}

MegaRaidBattles == <<"M","e","g","a"," ","R","a","i","d"," ","B","a","t","t","l","e","s">>
FiveStarRaidBattles == <<"5","-","S","t","a","r"," ","R","a","i","d"," ","B","a","t","t","l","e","s">>

\* C6: get_event_icon returns the glyph of the earliest rule, in the fixed
\* order, with a keyword in the lower-cased title, and the default glyph
\* when there is none; "Mega Raid Battles" gets the mega-raid glyph and
\* "5-Star Raid Battles" the raid-battles glyph.
C6_FirstMatchingRuleWins ==
    pc = "returned" =>
        /\ MatchingRules(title) = {} => icon = "calendar"
        /\ MatchingRules(title) # {} =>
              icon = Rules[CHOOSE i \in MatchingRules(title) :
                              \A o \in MatchingRules(title) : i <= o].glyph
        /\ title = MegaRaidBattles => icon = "sparkles"
        /\ title = FiveStarRaidBattles => icon = "swords"

\* "Mega Raid Battles", which the mega-raid and the raid-battles rules both
\* match, was classified.
C6_Witness ==
    /\ pc = "returned"
    /\ title = MegaRaidBattles
    /\ {3, 4} \subseteq MatchingRules(title)
    /\ icon = "sparkles"

\* C7: for a short-form string that names a date of the current year,
\* parse_datetime gives the current year, or the current year plus one when
\* prefer_future is set and that date is before now; for a full-form string
\* it gives the explicit year whatever prefer_future is.
C7_YearResolution ==
    /\ (/\ pc \in {"returned", "raised"}
        /\ date_str.form = "short"
        /\ date_str.ampm \in {"AM", "PM"}
        /\ ~strptime(AbbrMonths, date_str.mon, date_str.day, clock.year,
                     date_str.hour, date_str.minute, date_str.ampm).exc)
       => LET built == strptime(AbbrMonths, date_str.mon, date_str.day,
                                clock.year, date_str.hour, date_str.minute,
                                date_str.ampm).val
          IN  /\ ~parsed.exc
              /\ parsed.val # None
              /\ Year(parsed.val) =
                     IF prefer_future /\ Before(localize(built), clock.now)
                     THEN clock.year + 1 ELSE clock.year
    /\ (/\ pc = "returned"
        /\ date_str.form = "full"
        /\ parsed.val # None)
       => /\ Year(parsed.val) = date_str.year
          /\ parse_datetime(date_str, ~prefer_future, clock) = parsed

\* description.split('\n\n'), and no paragraph for ''
RECURSIVE SplitParas(_)
SplitParas(s) ==
    LET breaks == {i \in 1..(Len(s) - 1) : s[i] = "\n" /\ s[i + 1] = "\n"} IN
    IF s = <<>> THEN <<>>
    ELSE IF breaks = {} THEN <<s>>
    ELSE LET b == CHOOSE i \in breaks : \A o \in breaks : i <= o IN
         <<SubSeq(s, 1, b - 1)>> \o SplitParas(SubSeq(s, b + 2, Len(s)))

\* "cookie" occurs in t in some mix of cases.
HasCookie(t) ==
    \E i \in 1..(Len(t) - 5) :
        \A k \in 1..6 : LowerChar(t[i + k - 1]) = CookieWord[k]

LongAndCookieFree(t) == Len(t) > 20 /\ ~HasCookie(t)

\* The selectors that yield at least one paragraph node.
WithParagraphs(p) ==
    {i \in 1..Len(desc_selectors) :
        p.dom[desc_selectors[i]].present
            /\ Len(p.dom[desc_selectors[i]].paragraphs) >= 1}

FirstWithParagraphs(p) ==
    CHOOSE i \in WithParagraphs(p) : \A o \in WithParagraphs(p) : i <= o

\* C8: the description has at most 5 paragraphs, none shorter than 20
\* characters or with "cookie" in any case; it is made of the first five
\* qualifying paragraphs, in document order, of the first selector that
\* yields a paragraph node, and no later selector is consulted even when
\* none of those paragraphs qualifies.
C8_DescriptionParagraphs ==
    (pc = "returned" /\ ~details_failed(page)) =>
        LET parts == SplitParas(details.description) IN
        /\ Len(parts) <= 5
        /\ \A i \in 1..Len(parts) :
              Len(parts[i]) >= 20 /\ ~HasCookie(parts[i])
        /\ WithParagraphs(page) = {} => parts = <<>>
        /\ WithParagraphs(page) # {} =>
              LET raw == page.dom[desc_selectors[
                             FirstWithParagraphs(page)]].paragraphs
                  kept == SelectSeq([i \in 1..Len(raw) |-> Strip(raw[i])],
                                    LongAndCookieFree)
              IN  parts = SubSeq(kept, 1,
                                 IF Len(kept) < 5 THEN Len(kept) ELSE 5)

\* The first selector with paragraphs has six of them, of which none
\* qualifies, a later selector has one that does, and the description is
\* empty.
C8_Witness ==
    /\ pc = "returned"
    /\ ~details_failed(page)
    /\ WithParagraphs(page) # {}
    /\ LET raw == page.dom[desc_selectors[
                      FirstWithParagraphs(page)]].paragraphs
       IN  /\ Len(raw) >= 6
           /\ \A i \in 1..Len(raw) : ~LongAndCookieFree(Strip(raw[i]))
    /\ \E o \in WithParagraphs(page) :
          /\ o > FirstWithParagraphs(page)
          /\ \E i \in 1..Len(page.dom[desc_selectors[o]].paragraphs) :
                LongAndCookieFree(
                    Strip(page.dom[desc_selectors[o]].paragraphs[i]))
    /\ details.description = <<>>

\* C9: when the page has no "Ends:" label, no date range with or without
\* time and fewer than two full-form dates, the result has end = None and
\* holds the title, start and description that were extracted, whether the
\* start came from the "Starts:" label or from the scan of all dates.
C9_EndStaysUnresolved ==
    (/\ pc = "returned"
     /\ page.ok
     /\ search(page.text, "ends") = 0
     /\ search(page.text, "range1") = 0
     /\ search(page.text, "range2") = 0
     /\ Len(findall_dates(page.text)) < 2
     /\ ~extract_start(page).exc)
    => /\ details.end = None
       /\ details.start = extract_start(page).val
       /\ details.title = extract_title(page)
       /\ details.description = extract_description(page)

\* C10: no two components of the exported calendar carry the same uid.
C10_UidsUnique ==
    \A i, j \in 1..Len(components) :
        i # j => components[i].uid # components[j].uid

=============================================================================
